---- MODULE Spec2Model ----
(***************************************************************************)
(* A model of @apostrophecms/sql (src/index.js): a MongoDB-like collection *)
(* facade over a SQL table driven through knex.                            *)
(*                                                                         *)
(* Representation.                                                         *)
(*  - A property or column name is a sequence of tokens, "." and "__"      *)
(*    being tokens of their own: 'a.b' is <<"a", ".", "b">>.               *)
(*  - A document, a criteria object and a knex row object are functions    *)
(*    from names to values; a property that is absent is not in DOMAIN.    *)
(*  - A JavaScript value that may be undefined, and a SQL cell that may be *)
(*    NULL, is a sequence: <<>> (undefined / NULL) or <<v>>.               *)
(*  - A criteria value is a record: scalar = TRUE for {k: v}, FALSE for an *)
(*    operator object {k: {$op: v}}.                                       *)
(***************************************************************************)
EXTENDS Integers, Sequences, FiniteSets, TLC

VARIABLES
    \* the SQL table behind the collection
    columns,      \* set of column names of the table
    rows,         \* primary key -> stored row (column name -> cell)
    sqlIndexes,   \* indexes of the table: [cols, unique]
    \* the collection object
    indexes,      \* self.indexes
    issued,       \* ids cuid() has generated so far
    \* construction options and the engine behind knex
    locked,       \* the metadata.locked option / NODE_ENV=production
    client,       \* the knex client
    \* the last facade call that completed (observation only)
    last,
    \* readiness gate (a collection whose table is being prepared)
    tablePending, tableFailed, readyQueue, bg, tableExists,
    microtasks, opPc, opKind, opErr, statements,
    \* collection objects of one name obtained side by side, each with its
    \* own background creation of the table
    handles,
    \* concurrent updateOne calls
    upPc, upDoc, upOps, upResult

vars == <<columns, rows, sqlIndexes, indexes, issued, locked, client, last,
          tablePending, tableFailed, readyQueue, bg, tableExists,
          microtasks, opPc, opKind, opErr, statements, handles,
          upPc, upDoc, upOps, upResult>>

tableVars == <<columns, rows, sqlIndexes>>
gateVars == <<tablePending, tableFailed, readyQueue, bg, tableExists,
              microtasks, opPc, opKind, opErr, statements, handles>>
raceVars == <<upPc, upDoc, upOps, upResult>>

----------------------------------------------------------------------------
(* Names *)

ID == <<"_id">>
EXT_JSON == <<"_ext_json">>
AND == <<"$and">>
NAME == <<"name">>
FUR == <<"fur">>
N == <<"n">>

Undefined == <<>>
NULL == <<>>

MinOf(S) == CHOOSE i \in S : \A j \in S : i <= j

----------------------------------------------------------------------------
(* Pure helpers of src/index.js *)

\* name.replace(/\./g, '__')
MangleName(name) ==
    [i \in 1..Len(name) |-> IF name[i] = "." THEN "__" ELSE name[i]]

\* deepGet(criteria, key): own property first, then the first $and branch
\* (depth first) in which the key is found.
RECURSIVE DeepGet(_, _)
DeepGet(criteria, key) ==
    IF key \in DOMAIN criteria
    THEN <<criteria[key]>>
    ELSE IF AND \in DOMAIN criteria
         THEN LET branches == criteria[AND]
                  found == [i \in 1..Len(branches) |-> DeepGet(branches[i], key)]
                  hits == {i \in 1..Len(branches) : found[i] # Undefined}
              IN  IF hits = {} THEN Undefined ELSE found[MinOf(hits)]
         ELSE Undefined

\* EJSON.stringify / EJSON.parse: the text is opaque to the SQL engine; only
\* EJSON.parse takes it apart again.
EJSONstringify(doc) == [ejson |-> doc]
EJSONparse(text) == text.ejson

\* Object.keys(index.fields) of every index, in order.
RECURSIVE AllFields(_)
AllFields(idx) ==
    IF idx = <<>> THEN <<>> ELSE Head(idx).fields \o AllFields(Tail(idx))

\* row[mangleName(field)] = deepGet(doc, field), a later assignment
\* overwriting an earlier one.
RECURSIVE AssignFields(_, _, _)
AssignFields(row, fields, doc) ==
    IF fields = <<>>
    THEN row
    ELSE AssignFields(
             (MangleName(Head(fields)) :> DeepGet(doc, Head(fields))) @@ row,
             Tail(fields), doc)

PrepareForUpdate(idx, doc) ==
    AssignFields(
        (ID :> DeepGet(doc, ID)) @@ (EXT_JSON :> <<EJSONstringify(doc)>>),
        AllFields(idx), doc)

\* { ...prepareForUpdate(indexes, doc), _id: doc._id || cuid() }
PrepareForInsert(idx, doc, cuid) ==
    (ID :> IF ID \in DOMAIN doc THEN <<doc[ID]>> ELSE <<cuid>>)
        @@ PrepareForUpdate(idx, doc)

----------------------------------------------------------------------------
(* Errors *)

NoError == [code |-> "", message |-> ""]

\* The code the engine behind the knex client puts on a violated PRIMARY KEY
\* or UNIQUE constraint.
ConstraintCode(cl) ==
    IF cl = "sqlite3" THEN "SQLITE_CONSTRAINT" ELSE "ER_DUP_ENTRY"

ConstraintError(cl) == [code |-> ConstraintCode(cl), message |-> "constraint failed"]
NoSuchColumn == [code |-> "ERROR", message |-> "no such column"]
\* knex refuses to compile a statement one of whose bindings is undefined
UndefinedBinding == [code |-> "", message |-> "Undefined binding(s) detected"]

NotUnique == [code |-> "11000", message |-> "Not Unique"]

compatibleError(e) ==
    IF e.code = "SQLITE_CONSTRAINT" THEN NotUnique ELSE e

----------------------------------------------------------------------------
(* The SQL table, as knex and the engine behave on it *)

EmptyTable == [p \in {} |-> <<>>]

\* A UNIQUE index is violated by two rows that agree on all its columns,
\* none of them NULL.
UniqueViolation(rws, idxs) ==
    \E u \in idxs : \E p, q \in DOMAIN rws :
        /\ u.unique
        /\ p # q
        /\ \A i \in 1..Len(u.cols) :
              /\ rws[p][u.cols[i]] # NULL
              /\ rws[p][u.cols[i]] = rws[q][u.cols[i]]

\* knex(name).insert(row): [err, rows]
SqlInsert(cols, rws, idxs, cl, row) ==
    LET pk == row[ID][1]
        stored == [c \in cols |-> IF c \in DOMAIN row THEN row[c] ELSE NULL]
        after == (pk :> stored) @@ rws
    IN  IF ~(DOMAIN row \subseteq cols)
        THEN [err |-> NoSuchColumn, rows |-> rws]
        ELSE IF pk \in DOMAIN rws \/ UniqueViolation(after, idxs)
        THEN [err |-> ConstraintError(cl), rows |-> rws]
        ELSE [err |-> NoError, rows |-> after]

\* knex(name).update(row).where('_id', '=', id): [err, rows, n].
\* knex leaves a column whose new value is undefined out of the SET list.
SqlUpdate(cols, rws, idxs, cl, row, id) ==
    IF id = Undefined
    THEN [err |-> UndefinedBinding, rows |-> rws, n |-> 0]
    ELSE IF ~(DOMAIN row \subseteq cols)
    THEN [err |-> NoSuchColumn, rows |-> rws, n |-> 0]
    ELSE IF id[1] \notin DOMAIN rws
    THEN [err |-> NoError, rows |-> rws, n |-> 0]
    ELSE LET after == [rws EXCEPT ![id[1]] =
                         [c \in cols |-> IF c \in DOMAIN row /\ row[c] # Undefined
                                         THEN row[c] ELSE @[c]]]
         IN  IF UniqueViolation(after, idxs)
             THEN [err |-> ConstraintError(cl), rows |-> rws, n |-> 0]
             ELSE [err |-> NoError, rows |-> after, n |-> 1]

\* select * from name where column = value and ...: [err, pks]
SqlSelect(cols, rws, wheres) ==
    IF \E i \in 1..Len(wheres) : wheres[i].column \notin cols
    THEN [err |-> NoSuchColumn, pks |-> {}]
    ELSE [err |-> NoError,
          pks |-> {p \in DOMAIN rws :
                     \A i \in 1..Len(wheres) :
                        rws[p][wheres[i].column] = <<wheres[i].value>>}]

\* knex(name).where('_id', id).delete() and .whereIn('_id', ids).delete(),
\* ids being the sequence of the _id values given: [err, rows, n]
SqlDelete(rws, ids) ==
    LET gone == {p \in DOMAIN rws : \E i \in 1..Len(ids) : ids[i] = <<p>>}
    IN  IF \E i \in 1..Len(ids) : ids[i] = Undefined
        THEN [err |-> UndefinedBinding, rows |-> rws, n |-> 0]
        ELSE [err |-> NoError,
              rows |-> [p \in DOMAIN rws \ gone |-> rws[p]],
              n |-> Cardinality(gone)]

----------------------------------------------------------------------------
(* The in-memory matcher, sift(criteria) *)

MatchCond(cond, doc, key) ==
    CASE cond.op = "$eq" -> key \in DOMAIN doc /\ doc[key] = cond.v
      [] cond.op = "$ne" -> key \notin DOMAIN doc \/ doc[key] # cond.v

RECURSIVE Sift(_, _)
Sift(criteria, doc) ==
    /\ \A key \in DOMAIN criteria \ {AND} : MatchCond(criteria[key], doc, key)
    /\ AND \in DOMAIN criteria =>
          \A i \in 1..Len(criteria[AND]) : Sift(criteria[AND][i], doc)

----------------------------------------------------------------------------
(* query(collection, criteria).toArray() *)

\* The loop over an index's fields with `continue` where the code has
\* `break`: a field after an absent or object-valued one is still used.
RECURSIVE PrefixWheres_NoBreak(_, _)
PrefixWheres_NoBreak(fields, criteria) ==
    IF fields = <<>>
    THEN <<>>
    ELSE LET value == DeepGet(criteria, Head(fields))
         IN  IF value # Undefined /\ value[1].scalar
             THEN <<[column |-> Head(fields), value |-> value[1].v]>>
                      \o PrefixWheres_NoBreak(Tail(fields), criteria)
             ELSE PrefixWheres_NoBreak(Tail(fields), criteria)

\* The equality conditions of one index: its fields in order, up to the
\* first one whose criteria value is undefined or an object.
RECURSIVE PrefixWheres(_, _)
PrefixWheres(fields, criteria) ==
    IF fields = <<>>
    THEN <<>>
    ELSE LET value == DeepGet(criteria, Head(fields))
         IN  IF value # Undefined /\ value[1].scalar
             THEN <<[column |-> Head(fields), value |-> value[1].v]>>
                      \o PrefixWheres(Tail(fields), criteria)
             ELSE <<>>

RECURSIVE PushdownWheres(_, _)
PushdownWheres(idx, criteria) ==
    IF idx = <<>>
    THEN <<>>
    ELSE PrefixWheres(Head(idx).fields, criteria)
             \o PushdownWheres(Tail(idx), criteria)

\* The rows the query keeps: selected by the engine, then sifted.
\* [err, pks]
QueryFiltered(cols, rws, idx, criteria) ==
    LET results == SqlSelect(cols, rws, PushdownWheres(idx, criteria))
    IN  [err |-> results.err,
         pks |-> {p \in results.pks :
                    Sift(criteria, EJSONparse(rws[p][EXT_JSON][1]))}]

\* The engine returns rows in no particular order when the query has no
\* ORDER BY: every enumeration of the kept rows is a possible answer.
Enumerations(S) ==
    {f \in [1..Cardinality(S) -> S] : \A i, j \in 1..Cardinality(S) : i # j => f[i] # f[j]}

\* filtered.slice(skipParam) when skipParam is truthy
Skip(seq, skipParam) ==
    IF skipParam > 0
    THEN SubSeq(seq, skipParam + 1, Len(seq))
    ELSE seq

\* filtered.slice(0, limitParam) when limitParam is truthy
Limit(seq, limitParam) ==
    IF limitParam > 0
    THEN SubSeq(seq, 1, IF limitParam < Len(seq) THEN limitParam ELSE Len(seq))
    ELSE seq

\* toArray() with skip and limit applied to the rows the engine returns,
\* before the matcher sees them
ToArray_SliceFirst(cols, rws, idx, criteria, skipParam, limitParam) ==
    LET results == SqlSelect(cols, rws, PushdownWheres(idx, criteria)).pks
    IN  {SelectSeq(Limit(Skip([i \in 1..Cardinality(results) |->
                                  EJSONparse(rws[order[i]][EXT_JSON][1])],
                              skipParam), limitParam),
                   LAMBDA doc : Sift(criteria, doc)) :
            order \in Enumerations(results)}

\* The possible results of toArray(): sequences of decoded documents.
ToArray(cols, rws, idx, criteria, skipParam, limitParam) ==
    LET q == QueryFiltered(cols, rws, idx, criteria)
    IN  {Limit(Skip([i \in 1..Cardinality(q.pks) |->
                        EJSONparse(rws[order[i]][EXT_JSON][1])],
                    skipParam), limitParam) :
            order \in Enumerations(q.pks)}

----------------------------------------------------------------------------
(* updateBody: the update operators.  `operations` is the sequence of the  *)
(* object's entries, [key, value], in property order.                      *)

Unsupported == [code |-> "", message |-> "@apostrophecms/sql does not support"]

HasKey(operations, key) == \E i \in 1..Len(operations) : operations[i].key = key
ValueOf(operations, key) ==
    operations[CHOOSE i \in 1..Len(operations) : operations[i].key = key].value

\* [...new Set(seq)]: the first occurrence of every element, in order
RECURSIVE Dedup(_)
Dedup(seq) ==
    IF seq = <<>>
    THEN <<>>
    ELSE LET front == Dedup(SubSeq(seq, 1, Len(seq) - 1))
             x == seq[Len(seq)]
         IN  IF \E i \in 1..Len(front) : front[i] = x THEN front ELSE Append(front, x)

\* if (operations.$currentDate) { ... }: its keys become $set entries
RewriteCurrentDate(operations, now) ==
    IF ~HasKey(operations, "$currentDate")
    THEN operations
    ELSE LET dates == [k \in DOMAIN ValueOf(operations, "$currentDate") |-> now]
             withSet ==
                 IF HasKey(operations, "$set")
                 THEN [i \in 1..Len(operations) |->
                          IF operations[i].key = "$set"
                          THEN [key |-> "$set", value |-> dates @@ operations[i].value]
                          ELSE operations[i]]
                 ELSE Append(operations, [key |-> "$set", value |-> dates])
         IN  SelectSeq(withSet, LAMBDA e : e.key # "$currentDate")

\* one case of the switch: [err, doc]
ApplyOperator(doc, key, value) ==
    CASE key = "$set" ->
            [err |-> NoError, doc |-> value @@ doc]
      [] key = "$unset" ->
            [err |-> NoError,
             doc |-> [k \in DOMAIN doc \ DOMAIN value |-> doc[k]]]
      [] key = "$inc" ->
            [err |-> NoError,
             doc |-> [k \in DOMAIN value |->
                        (IF k \in DOMAIN doc THEN doc[k] ELSE 0) + value[k]] @@ doc]
      [] key = "$pull" ->
            [err |-> NoError,
             doc |-> [k \in DOMAIN value |->
                        SelectSeq(IF k \in DOMAIN doc THEN doc[k] ELSE <<>>,
                                  LAMBDA v : v # value[k])] @@ doc]
      [] key = "$addToSet" ->
            \* new Set(doc[prop] || [], added): the Set constructor reads its
            \* first argument only
            [err |-> NoError,
             doc |-> [k \in DOMAIN value |->
                        Dedup(IF k \in DOMAIN doc THEN doc[k] ELSE <<>>)] @@ doc]
      [] OTHER ->
            [err |-> Unsupported, doc |-> doc]

\* for (const [ key, value ] of Object.entries(operations)): [err, doc]
RECURSIVE ApplyOperators(_, _)
ApplyOperators(doc, operations) ==
    IF operations = <<>>
    THEN [err |-> NoError, doc |-> doc]
    ELSE LET r == ApplyOperator(doc, Head(operations).key, Head(operations).value)
         IN  IF r.err # NoError
             THEN r
             ELSE ApplyOperators(r.doc, Tail(operations))

\* The part of updateBody before its write: [err, doc]
UpdatedDoc(doc, operations, now) ==
    ApplyOperators(doc, RewriteCurrentDate(operations, now))

\* updateBody applying the operators to the row as it is stored now, not to
\* the document it was handed
UpdateBody_Reread(cols, rws, idxs, cl, idx, doc, operations, now) ==
    LET u == UpdatedDoc(EJSONparse(rws[doc[ID]][EXT_JSON][1]), operations, now)
    IN  IF u.err # NoError
        THEN [err |-> u.err, rows |-> rws, n |-> 0]
        ELSE LET w == SqlUpdate(cols, rws, idxs, cl,
                                PrepareForUpdate(idx, u.doc), DeepGet(u.doc, ID))
             IN  [err |-> w.err, rows |-> w.rows,
                  n |-> IF w.err = NoError THEN 1 ELSE 0]

\* updateBody(doc, operations): [err, rows, n]
UpdateBody(cols, rws, idxs, cl, idx, doc, operations, now) ==
    LET u == UpdatedDoc(doc, operations, now)
    IN  IF u.err # NoError
        THEN [err |-> u.err, rows |-> rws, n |-> 0]
        ELSE LET w == SqlUpdate(cols, rws, idxs, cl,
                                PrepareForUpdate(idx, u.doc), DeepGet(u.doc, ID))
             IN  [err |-> w.err, rows |-> w.rows,
                  n |-> IF w.err = NoError THEN 1 ELSE 0]

----------------------------------------------------------------------------
(* Bounds and the inputs the calls are given *)

MaxRows == 2
MaxIndexes == 1

UserIds == {"a", "b"}
Cuids == {"c1", "c2"}
Names == {"pypy"}
Furs == {"black", "white"}
Clients == {"sqlite3", "mysql"}

EmptyObject == [k \in {} |-> 0]

\* { name, fur } and { _id, name, fur }
InsertDocs ==
    {(NAME :> nm) @@ (FUR :> f) : nm \in Names, f \in Furs}
        \cup {(ID :> i) @@ (NAME :> nm) @@ (FUR :> f) :
                 i \in UserIds, nm \in Names, f \in Furs}

Eq(v) == [scalar |-> TRUE, op |-> "$eq", v |-> v]
Ne(v) == [scalar |-> FALSE, op |-> "$ne", v |-> v]

\* { name: 'pypy' }, { _id: 'a' }, { fur: f }
UpdateCriteria ==
    {NAME :> Eq("pypy"), ID :> Eq("a")} \cup {FUR :> Eq(f) : f \in Furs}

\* the above, {}, { fur: { $ne: 'black' } } and
\* { $and: [ { fur: 'black' }, { name: 'pypy' } ] }
FindCriteria ==
    UpdateCriteria
        \cup {EmptyObject, FUR :> Ne("black"),
              AND :> <<FUR :> Eq("black"), NAME :> Eq("pypy")>>}

\* { $set: { fur: f } }
UpdateOperations == {<<[key |-> "$set", value |-> (FUR :> f)]>> : f \in Furs}

\* createIndex({ fur: 1 }), createIndex({ name: 1, fur: 1 })
IndexFields == {<<FUR>>, <<NAME, FUR>>}

\* { _id: 'a', name: 'pypy', fur: 'black' }
RaceDoc == (ID :> "a") @@ (NAME :> "pypy") @@ (FUR :> "black")

----------------------------------------------------------------------------
(* The collection once its table is ready: one action per facade call *)

IsReady == ~tablePending /\ tableFailed = NoError

\* The last facade call: what it was given and what it answered.  descriptor
\* tells whether the call returned a result descriptor at all, wheres holds
\* the conditions of the statement a find sent to the engine.
NoCall == [op |-> "", err |-> NoError, n |-> 0, pk |-> "", doc |-> EmptyObject,
           operations |-> <<>>, criteria |-> EmptyObject, descriptor |-> TRUE,
           skip |-> 0, limit |-> 0, result |-> <<>>, wheres |-> <<>>]

\* self.indexes of a new collection
InitialIndexes == <<[fields |-> <<ID>>, options |-> [unique |-> FALSE]]>>

\* insertOne(doc), cuid being what cuid() returns if called: [err, rows, n, pk]
InsertOneResult(cols, rws, idxs, cl, idx, doc, cuid) ==
    LET row == PrepareForInsert(idx, doc, cuid)
        r == SqlInsert(cols, rws, idxs, cl, row)
    IN  IF r.err # NoError
        THEN [err |-> compatibleError(r.err), rows |-> rws, n |-> 0, pk |-> row[ID][1]]
        ELSE [err |-> NoError, rows |-> r.rows, n |-> 1, pk |-> row[ID][1]]

\* the values cuid() may return for this document
CuidFor(doc) == IF ID \in DOMAIN doc THEN {"-"} ELSE Cuids \ issued

\* insertOne(doc)
InsertOneCall(doc) ==
    \E cuid \in CuidFor(doc) :
       LET r == InsertOneResult(columns, rows, sqlIndexes, client, indexes, doc, cuid)
       IN  /\ rows' = r.rows
           /\ issued' = IF ID \in DOMAIN doc THEN issued ELSE issued \cup {cuid}
           /\ last' = [NoCall EXCEPT !.op = "insertOne", !.err = r.err,
                                     !.n = r.n, !.pk = r.pk, !.doc = doc]

InsertOne ==
    /\ IsReady
    /\ Cardinality(DOMAIN rows) < MaxRows
    /\ \E doc \in InsertDocs : InsertOneCall(doc)
    /\ UNCHANGED <<columns, sqlIndexes, indexes, locked, client>>
    /\ UNCHANGED <<gateVars, raceVars>>

ReplaceOne ==
    /\ IsReady
    /\ \E doc \in InsertDocs :
          LET w == SqlUpdate(columns, rows, sqlIndexes, client,
                             PrepareForUpdate(indexes, doc), DeepGet(doc, ID))
          IN  /\ rows' = w.rows
              /\ last' = [NoCall EXCEPT !.op = "replaceOne", !.err = w.err,
                                        !.n = IF w.err = NoError THEN 1 ELSE 0,
                                        !.pk = IF ID \in DOMAIN doc THEN doc[ID] ELSE ""]
    /\ UNCHANGED <<columns, sqlIndexes, indexes, issued, locked, client>>
    /\ UNCHANGED <<gateVars, raceVars>>

\* findOne(criteria): the possible answers, <<>> (undefined) or <<doc>>,
\* or the error of the query
FindOne(cols, rws, idx, criteria) ==
    {IF r = <<>> THEN Undefined ELSE <<r[1]>> :
        r \in ToArray(cols, rws, idx, criteria, 0, 1)}

\* the rows a document returned by a query may have been decoded from
RowsOf(rws, doc) == {p \in DOMAIN rws : EJSONparse(rws[p][EXT_JSON][1]) = doc}

\* insertOne(undefined): prepareForUpdate reads doc._id of undefined
TypeError == [code |-> "", message |-> "Cannot read properties of undefined"]

\* return self.insertOne(operations.$set), the upsert of updateOne and
\* updateMany; call is the record of the facade call so far
Upsert(call, operations) ==
    IF ~HasKey(operations, "$set")
    THEN /\ last' = [call EXCEPT !.err = TypeError]
         /\ UNCHANGED <<rows, issued>>
    ELSE /\ Cardinality(DOMAIN rows) < MaxRows
         /\ \E cuid \in CuidFor(ValueOf(operations, "$set")) :
               LET r == InsertOneResult(columns, rows, sqlIndexes, client, indexes,
                                        ValueOf(operations, "$set"), cuid)
               IN  /\ rows' = r.rows
                   /\ issued' = issued \cup ({cuid} \ {"-"})
                   /\ last' = [call EXCEPT !.err = r.err, !.n = r.n, !.pk = r.pk]

\* updateOne(criteria, operations, options)
UpdateOneCall(criteria, operations) ==
    LET q == QueryFiltered(columns, rows, indexes, criteria)
        call == [NoCall EXCEPT !.op = "updateOne", !.operations = operations]
    IN  IF q.err # NoError
        THEN /\ last' = [call EXCEPT !.err = q.err]
             /\ UNCHANGED <<rows, issued>>
        ELSE \E found \in FindOne(columns, rows, indexes, criteria) :
               IF found = Undefined
               THEN \E upsert \in BOOLEAN :
                    IF upsert
                    THEN Upsert([call EXCEPT !.op = "updateOne:upsert"], operations)
                    ELSE /\ last' = call
                         /\ UNCHANGED <<rows, issued>>
               ELSE \E pk \in RowsOf(rows, found[1]) :
                      LET r == UpdateBody(columns, rows, sqlIndexes, client,
                                          indexes, found[1], operations, 0)
                      IN  /\ rows' = r.rows
                          /\ last' = [call EXCEPT !.err = r.err, !.n = r.n,
                                                  !.pk = pk]
                          /\ UNCHANGED issued

UpdateOne ==
    /\ IsReady
    /\ \E criteria \in UpdateCriteria, operations \in UpdateOperations :
          UpdateOneCall(criteria, operations)
    /\ UNCHANGED <<columns, sqlIndexes, indexes, locked, client>>
    /\ UNCHANGED <<gateVars, raceVars>>

\* for (const doc of docs) await self.updateBody(doc, operations): the
\* first failure ends the loop, the rows written before it stay written.
\* [err, rows]
RECURSIVE UpdateEach(_, _, _, _, _, _, _)
UpdateEach(cols, rws, idxs, cl, idx, docs, operations) ==
    IF docs = <<>>
    THEN [err |-> NoError, rows |-> rws]
    ELSE LET r == UpdateBody(cols, rws, idxs, cl, idx, Head(docs), operations, 0)
         IN  IF r.err # NoError
             THEN [err |-> r.err, rows |-> r.rows]
             ELSE UpdateEach(cols, r.rows, idxs, cl, idx, Tail(docs), operations)

\* updateMany(criteria, operations, options): it returns nothing unless it
\* upserts
UpdateManyCall(criteria, operations) ==
    LET q == QueryFiltered(columns, rows, indexes, criteria)
        call == [NoCall EXCEPT !.op = "updateMany", !.operations = operations,
                               !.criteria = criteria]
    IN  IF q.err # NoError
        THEN /\ last' = [call EXCEPT !.err = q.err]
             /\ UNCHANGED <<rows, issued>>
        ELSE \E docs \in ToArray(columns, rows, indexes, criteria, 0, 0) :
             \E upsert \in IF docs = <<>> THEN BOOLEAN ELSE {FALSE} :
               IF upsert
               THEN Upsert([call EXCEPT !.op = "updateMany:upsert"], operations)
               ELSE LET r == UpdateEach(columns, rows, sqlIndexes, client, indexes,
                                        docs, operations)
                    IN  /\ rows' = r.rows
                        /\ last' = [call EXCEPT !.err = r.err, !.descriptor = FALSE]
                        /\ UNCHANGED issued

UpdateMany ==
    /\ IsReady
    /\ \E criteria \in UpdateCriteria, operations \in UpdateOperations :
          UpdateManyCall(criteria, operations)
    /\ UNCHANGED <<columns, sqlIndexes, indexes, locked, client>>
    /\ UNCHANGED <<gateVars, raceVars>>

\* for (const doc of docs) await knex(name).insert(prepareForInsert(...)):
\* cuids are the values cuid() returns, in the order it is called.
\* [err, rows, used], used being the number of cuid() calls made
RECURSIVE InsertEach(_, _, _, _, _, _, _)
InsertEach(cols, rws, idxs, cl, idx, docs, cuids) ==
    IF docs = <<>>
    THEN [err |-> NoError, rows |-> rws, used |-> 0]
    ELSE LET own == ID \in DOMAIN Head(docs)
             row == PrepareForInsert(idx, Head(docs), IF own THEN "-" ELSE Head(cuids))
             r == SqlInsert(cols, rws, idxs, cl, row)
             k == IF own THEN 0 ELSE 1
         IN  IF r.err # NoError
             THEN [err |-> r.err, rows |-> rws, used |-> k]
             ELSE LET rest == InsertEach(cols, r.rows, idxs, cl, idx, Tail(docs),
                                         IF own THEN cuids ELSE Tail(cuids))
                  IN  [rest EXCEPT !.used = @ + k]

\* the batches insertMany is given: one or two documents
InsertBatches ==
    {<<d>> : d \in InsertDocs} \cup {<<d, e>> : d, e \in InsertDocs}

InsertMany ==
    /\ IsReady
    /\ \E docs \in InsertBatches, cuids \in Enumerations(Cuids \ issued) :
          /\ Cardinality(DOMAIN rows) + Len(docs) <= MaxRows
          /\ Cardinality({i \in 1..Len(docs) : ID \notin DOMAIN docs[i]}) <= Len(cuids)
          /\ LET r == InsertEach(columns, rows, sqlIndexes, client, indexes, docs, cuids)
             IN  /\ rows' = r.rows
                 /\ issued' = issued \cup {cuids[i] : i \in 1..r.used}
                 /\ last' = [NoCall EXCEPT !.op = "insertMany",
                                !.err = compatibleError(r.err),
                                !.n = IF r.err = NoError THEN Len(docs) ELSE 0]
    /\ UNCHANGED <<columns, sqlIndexes, indexes, locked, client>>
    /\ UNCHANGED <<gateVars, raceVars>>

\* deleteOne(criteria) and deleteMany(criteria), and removeMany which calls
\* deleteMany: both look for the rows to delete with
\* query(self, criteria).limit(1)
DeleteCall(op, criteria) ==
    LET q == QueryFiltered(columns, rows, indexes, criteria)
        call == [NoCall EXCEPT !.op = op, !.criteria = criteria]
    IN  IF q.err # NoError
        THEN /\ last' = [call EXCEPT !.err = q.err]
             /\ UNCHANGED rows
        ELSE \E matching \in ToArray(columns, rows, indexes, criteria, 0, 1) :
               LET ids == [i \in 1..Len(matching) |-> DeepGet(matching[i], ID)]
                   r == SqlDelete(rows, ids)
               IN  /\ rows' = r.rows
                   /\ last' = [call EXCEPT !.err = r.err, !.n = r.n]

\* {} and the criteria of the updates
DeleteCriteria == UpdateCriteria \cup {EmptyObject}

DeleteOne ==
    /\ IsReady
    /\ \E criteria \in DeleteCriteria : DeleteCall("deleteOne", criteria)
    /\ UNCHANGED <<columns, sqlIndexes, indexes, issued, locked, client>>
    /\ UNCHANGED <<gateVars, raceVars>>

DeleteMany ==
    /\ IsReady
    /\ \E op \in {"deleteMany", "removeMany"}, criteria \in DeleteCriteria :
          DeleteCall(op, criteria)
    /\ UNCHANGED <<columns, sqlIndexes, indexes, issued, locked, client>>
    /\ UNCHANGED <<gateVars, raceVars>>

\* What the engine answers to a second index of the same name: the text
\* the code looks for is sqlite3's.
IndexExists(cl) ==
    [code |-> "ERROR",
     message |-> IF cl = "sqlite3" THEN "already exists" ELSE "Duplicate key name"]
DuplicateColumn == [code |-> "ERROR", message |-> "duplicate column name"]

\* knex.schema.alterTable(name, ...): the columns in `missing` are added one
\* by one, then the index over indexCols is created: [err, columns, rows,
\* sqlIndexes].  A statement that fails leaves the earlier ones done.
AlterTable(cols, rws, idxs, cl, missing, indexCols, unique) ==
    LET added == {missing[i] : i \in 1..Len(missing)}
        cols1 == cols \cup added
        rows1 == [p \in DOMAIN rws |->
                     [c \in cols1 |-> IF c \in cols THEN rws[p][c] ELSE NULL]]
        index == [cols |-> indexCols, unique |-> unique]
        done == [err |-> NoError, columns |-> cols1, rows |-> rows1, sqlIndexes |-> idxs]
    IN  IF \E i, j \in 1..Len(missing) : i < j /\ missing[i] = missing[j]
        THEN [done EXCEPT !.err = DuplicateColumn]
        ELSE IF index \in idxs
        THEN [done EXCEPT !.err = IndexExists(cl)]
        ELSE IF unique /\ UniqueViolation(rows1, {index})
        THEN [done EXCEPT !.err = ConstraintError(cl)]
        ELSE [done EXCEPT !.sqlIndexes = idxs \cup {index}]

\* e.toString().includes('already exists')
Swallowed(e) == e.message = "already exists"

\* createIndex(fields, { unique })
CreateIndexCall(fields, unique) ==
    LET columnNames == [i \in 1..Len(fields) |-> MangleName(fields[i])]
        missing == SelectSeq(columnNames, LAMBDA c : c \notin columns)
        r == AlterTable(columns, rows, sqlIndexes, client, missing,
                        columnNames, unique)
    IN  /\ indexes' = Append(indexes, [fields |-> fields,
                                       options |-> [unique |-> unique]])
        /\ columns' = r.columns
        /\ rows' = r.rows
        /\ sqlIndexes' = r.sqlIndexes
        /\ last' = [NoCall EXCEPT !.op = "createIndex",
                       !.err = IF Swallowed(r.err) THEN NoError ELSE r.err]

CreateIndex ==
    /\ IsReady
    /\ Len(indexes) <= MaxIndexes
    /\ \E fields \in IndexFields, unique \in BOOLEAN : CreateIndexCall(fields, unique)
    /\ UNCHANGED <<issued, locked, client>>
    /\ UNCHANGED <<gateVars, raceVars>>

----------------------------------------------------------------------------
(* Specification of the ready collection *)

\* the readiness gate of a collection whose table is there
GateReady ==
    /\ tablePending = FALSE
    /\ tableFailed = NoError
    /\ readyQueue = <<>>
    /\ bg = "settled"
    /\ tableExists = TRUE
    /\ microtasks = <<>>
    /\ opPc = <<>>
    /\ opKind = <<>>
    /\ opErr = <<>>
    /\ statements = {}
    /\ handles = <<>>

NoRace ==
    /\ upPc = <<>>
    /\ upDoc = <<>>
    /\ upOps = <<>>
    /\ upResult = <<>>

\* createTable: _id (primary key) and _ext_json
Init ==
    /\ columns = {ID, EXT_JSON}
    /\ rows = EmptyTable
    /\ sqlIndexes = {}
    /\ indexes = InitialIndexes
    /\ issued = {}
    /\ locked \in BOOLEAN
    /\ client \in Clients
    /\ last = NoCall
    /\ GateReady
    /\ NoRace

Next ==
    \/ InsertOne
    \/ ReplaceOne
    \/ UpdateOne
    \/ CreateIndex

Spec == Init /\ [][Next]_vars

----------------------------------------------------------------------------
(* The whole set of mutating calls, on a collection over sqlite3 *)

ManyInit ==
    /\ columns = {ID, EXT_JSON}
    /\ rows = EmptyTable
    /\ sqlIndexes = {}
    /\ indexes = InitialIndexes
    /\ issued = {}
    /\ locked = FALSE
    /\ client = "sqlite3"
    /\ last = NoCall
    /\ GateReady
    /\ NoRace

ManyNext ==
    \/ InsertOne
    \/ InsertMany
    \/ ReplaceOne
    \/ UpdateOne
    \/ UpdateMany
    \/ DeleteOne
    \/ DeleteMany
    \/ CreateIndex

SpecMany == ManyInit /\ [][ManyNext]_vars

----------------------------------------------------------------------------
(* createIndex called again and again, on either engine *)

MaxIndexCalls == 3

RepeatIndex ==
    /\ IsReady
    /\ Len(indexes) <= MaxIndexCalls
    /\ \E fields \in IndexFields, unique \in BOOLEAN : CreateIndexCall(fields, unique)
    /\ UNCHANGED <<issued, locked, client>>
    /\ UNCHANGED <<gateVars, raceVars>>

IndexInit ==
    /\ columns = {ID, EXT_JSON}
    /\ rows = EmptyTable
    /\ sqlIndexes = {}
    /\ indexes = InitialIndexes
    /\ issued = {}
    /\ locked = FALSE
    /\ client \in Clients
    /\ last = NoCall
    /\ GateReady
    /\ NoRace

IndexNext ==
    \/ InsertOne
    \/ RepeatIndex

SpecIndex == IndexInit /\ [][IndexNext]_vars

----------------------------------------------------------------------------
(* Queries: find(criteria).skip(s).limit(l).toArray() and the counts, on a *)
(* collection that grows by insertOne and gets indexes by createIndex      *)

MaxQueryRows == 3

\* the arguments of skip() and limit(); 0 is as good as no call
SkipParams == {0, 1}
LimitParams == {0, 1, 2}

\* the documents without _id, and those with _id 'a'
QueryDocs == {doc \in InsertDocs : ID \in DOMAIN doc => doc[ID] = "a"}

\* {}, { fur: 'black' }, { fur: { $ne: 'black' } }
QueryCriteria == {EmptyObject, FUR :> Eq("black"), FUR :> Ne("black")}

QueryInsertOne ==
    /\ IsReady
    /\ Cardinality(DOMAIN rows) < MaxQueryRows
    /\ \E doc \in QueryDocs : InsertOneCall(doc)
    /\ UNCHANGED <<columns, sqlIndexes, indexes, locked, client>>
    /\ UNCHANGED <<gateVars, raceVars>>

\* createIndex({ fur: 1 }, { unique }), each of the two asked for once
QueryCreateIndex ==
    /\ IsReady
    /\ \E unique \in BOOLEAN :
          /\ \A i \in 1..Len(indexes) :
                indexes[i] # [fields |-> <<FUR>>, options |-> [unique |-> unique]]
          /\ CreateIndexCall(<<FUR>>, unique)
    /\ UNCHANGED <<issued, locked, client>>
    /\ UNCHANGED <<gateVars, raceVars>>

\* find(criteria).skip(skip).limit(limit).toArray()
Find ==
    /\ IsReady
    /\ \E criteria \in QueryCriteria, skip \in SkipParams, limit \in LimitParams :
          LET q == QueryFiltered(columns, rows, indexes, criteria)
              call == [NoCall EXCEPT !.op = "find", !.criteria = criteria,
                                     !.skip = skip, !.limit = limit]
          IN  IF q.err # NoError
              THEN last' = [call EXCEPT !.err = q.err]
              ELSE \E result \in ToArray(columns, rows, indexes, criteria, skip, limit) :
                      last' = [call EXCEPT !.result = result]
    /\ UNCHANGED <<columns, rows, sqlIndexes, indexes, issued, locked, client>>
    /\ UNCHANGED <<gateVars, raceVars>>

\* countDocuments without the in-memory matcher: the rows the engine selects
CountDocuments_Sql(cols, rws, idx, criteria) ==
    {Cardinality(SqlSelect(cols, rws, PushdownWheres(idx, criteria)).pks)}

\* (await self.find(criteria).toArray()).length: the possible answers
CountDocuments(cols, rws, idx, criteria) ==
    {Len(r) : r \in ToArray(cols, rws, idx, criteria, 0, 0)}

\* count(criteria), countDocuments(criteria) and find(criteria).count()
Count ==
    /\ IsReady
    /\ \E op \in {"count", "countDocuments", "find.count"}, criteria \in QueryCriteria :
          LET q == QueryFiltered(columns, rows, indexes, criteria)
              call == [NoCall EXCEPT !.op = op, !.criteria = criteria]
          IN  IF q.err # NoError
              THEN last' = [call EXCEPT !.err = q.err]
              ELSE \E n \in CountDocuments(columns, rows, indexes, criteria) :
                      last' = [call EXCEPT !.n = n]
    /\ UNCHANGED <<columns, rows, sqlIndexes, indexes, issued, locked, client>>
    /\ UNCHANGED <<gateVars, raceVars>>

QueryNext ==
    \/ QueryInsertOne
    \/ QueryCreateIndex
    \/ Find
    \/ Count

SpecQuery == ManyInit /\ [][QueryNext]_vars

----------------------------------------------------------------------------
(* The update operators on a document with a sequence-valued property:     *)
(* { _id: 'a', name: 'pypy', fur: 'black', tags: [...] }                   *)

TAGS == <<"tags">>
MaxTags == 2
TagValues == {"x", "y"}
TagLists == UNION {[1..n -> TagValues] : n \in 0..MaxTags}

\* the document with no tags property, and with every list of tags
OperatorDocs ==
    {RaceDoc} \cup {(TAGS :> l) @@ RaceDoc : l \in TagLists}

\* { _id: 'a' } selects the document, { _id: 'b' } selects nothing
OperatorCriteria == {ID :> Eq("a"), ID :> Eq("b")}

SetWhite == [key |-> "$set", value |-> (FUR :> "white")]
\* $push is an operator of MongoDB that updateBody has no case for
Push == [key |-> "$push", value |-> (TAGS :> "x")]

OperatorOperations ==
    {<<[key |-> k, value |-> (TAGS :> t)]>> : k \in {"$addToSet", "$pull"}, t \in TagValues}
        \cup {<<Push>>, <<SetWhite, Push>>, <<Push, SetWhite>>}

OperatorUpdateOne ==
    /\ IsReady
    /\ \E criteria \in OperatorCriteria, operations \in OperatorOperations :
          UpdateOneCall(criteria, operations)
    /\ UNCHANGED <<columns, sqlIndexes, indexes, locked, client>>
    /\ UNCHANGED <<gateVars, raceVars>>

OperatorUpdateMany ==
    /\ IsReady
    /\ \E criteria \in OperatorCriteria, operations \in OperatorOperations :
          UpdateManyCall(criteria, operations)
    /\ UNCHANGED <<columns, sqlIndexes, indexes, locked, client>>
    /\ UNCHANGED <<gateVars, raceVars>>

\* the collection after insertOne(doc), doc being one of OperatorDocs
OperatorInit ==
    /\ columns = {ID, EXT_JSON}
    /\ \E doc \in OperatorDocs :
          rows = SqlInsert({ID, EXT_JSON}, EmptyTable, {}, "sqlite3",
                           PrepareForInsert(InitialIndexes, doc, "-")).rows
    /\ sqlIndexes = {}
    /\ indexes = InitialIndexes
    /\ issued = {}
    /\ locked = FALSE
    /\ client = "sqlite3"
    /\ last = NoCall
    /\ GateReady
    /\ NoRace

OperatorNext ==
    \/ OperatorUpdateOne
    \/ OperatorUpdateMany

SpecOperators == OperatorInit /\ [][OperatorNext]_vars

----------------------------------------------------------------------------
(* The readiness gate: collection(name) prepares the table in the          *)
(* background while facade calls arrive.                                   *)

NOps == 2
Ops == 1..NOps

\* errors hasTable / createTable may fail with
TableErrors == {[code |-> "ERROR", message |-> "disk I/O error"],
                [code |-> "ERROR", message |-> "permission denied"]}

Kinds == {"find.toArray", "count", "countDocuments", "findOne", "distinct",
          "insertOne", "insertMany", "replaceOne", "updateOne", "updateMany",
          "deleteOne", "deleteMany", "createIndex"}

\* What a facade call does up to its last relational round trip: calls of
\* ready() and statements sent through knex, in order.
Program(kind) ==
    CASE kind \in {"find.toArray", "findOne", "distinct"} ->
            <<"ready", "select">>
      [] kind \in {"count", "countDocuments"} ->
            <<"ready", "select">>
      [] kind \in {"insertOne", "insertMany"} ->
            <<"ready", "insert">>
      [] kind = "replaceOne" ->
            <<"ready", "update">>
      [] kind \in {"updateOne", "updateMany"} ->
            <<"ready", "ready", "select", "update">>
      [] kind \in {"deleteOne", "deleteMany"} ->
            <<"ready", "select", "delete">>
      [] kind = "createIndex" ->
            <<"ready", "hasColumn", "alterTable">>

\* ready() without its wait: it returns although the table is pending
Ready_NoWait(pending, failed) ==
    IF failed # NoError THEN "throw" ELSE "return"

\* ready() without its first test: a failed table looks pending for ever
Ready_IgnoresFailure(pending, failed) ==
    IF ~pending THEN "return" ELSE "wait"

\* ready(): throws, returns, or leaves a promise in readyQueue
Ready(pending, failed) ==
    IF failed # NoError THEN "throw"
    ELSE IF ~pending THEN "return"
    ELSE "wait"

Idle == [at |-> 0, st |-> "idle", queued |-> FALSE]

\* the gate's steps leave the table and the collection's indexes alone
GateFrame ==
    /\ UNCHANGED <<columns, rows, sqlIndexes, indexes, issued, locked, client, last>>
    /\ UNCHANGED handles
    /\ UNCHANGED raceVars

\* a facade call is made
Call(p) ==
    /\ opPc[p].st = "idle"
    /\ \E kind \in Kinds :
          /\ opKind' = [opKind EXCEPT ![p] = kind]
          /\ opPc' = [opPc EXCEPT ![p] = [at |-> 1, st |-> "run", queued |-> FALSE]]
    /\ UNCHANGED <<tablePending, tableFailed, readyQueue, bg, tableExists,
                   microtasks, opErr, statements>>
    /\ GateFrame

\* the call reaches await self.ready()
CallReady(p) ==
    /\ opPc[p].st = "run"
    /\ opPc[p].at <= Len(Program(opKind[p]))
    /\ Program(opKind[p])[opPc[p].at] = "ready"
    /\ LET outcome == Ready(tablePending, tableFailed)
       IN  CASE outcome = "throw" ->
                  /\ opPc' = [opPc EXCEPT ![p].st = "rejecting"]
                  /\ opErr' = [opErr EXCEPT ![p] = tableFailed]
                  /\ microtasks' = Append(microtasks, p)
                  /\ UNCHANGED readyQueue
             [] outcome = "return" ->
                  /\ opPc' = [opPc EXCEPT ![p].st = "resumed"]
                  /\ microtasks' = Append(microtasks, p)
                  /\ UNCHANGED <<opErr, readyQueue>>
             [] outcome = "wait" ->
                  /\ opPc' = [opPc EXCEPT ![p].st = "queued", ![p].queued = TRUE]
                  /\ readyQueue' = Append(readyQueue, p)
                  /\ UNCHANGED <<opErr, microtasks>>
    /\ UNCHANGED <<tablePending, tableFailed, bg, tableExists, opKind, statements>>
    /\ GateFrame

\* the continuation of the oldest settled await runs
RunMicrotask ==
    /\ microtasks # <<>>
    /\ LET p == Head(microtasks)
           pc == opPc[p]
       IN  opPc' = [opPc EXCEPT ![p] =
                       IF pc.st = "resumed"
                       THEN [pc EXCEPT !.st = IF pc.at = Len(Program(opKind[p]))
                                              THEN "done" ELSE "run",
                                       !.at = pc.at + 1]
                       ELSE [pc EXCEPT !.st = "rejected"]]
    /\ microtasks' = Tail(microtasks)
    /\ UNCHANGED <<tablePending, tableFailed, readyQueue, bg, tableExists,
                   opKind, opErr, statements>>
    /\ GateFrame

\* the call sends its next statement to the engine
Statement(p) ==
    /\ opPc[p].st = "run"
    /\ opPc[p].at <= Len(Program(opKind[p]))
    /\ Program(opKind[p])[opPc[p].at] # "ready"
    /\ statements' = statements \cup
          {[op |-> p, stmt |-> Program(opKind[p])[opPc[p].at],
            pending |-> tablePending, failed |-> tableFailed # NoError]}
    /\ opPc' = [opPc EXCEPT ![p].at = @ + 1,
                            ![p].st = IF opPc[p].at = Len(Program(opKind[p]))
                                      THEN "done" ELSE "run"]
    /\ UNCHANGED <<tablePending, tableFailed, readyQueue, bg, tableExists,
                   microtasks, opKind, opErr>>
    /\ GateFrame

\* the loop of the try block, taking the waiters last to first
SettleReady_LastFirst ==
    /\ tablePending' = FALSE
    /\ opPc' = [p \in Ops |-> IF opPc[p].st = "queued"
                               THEN [opPc[p] EXCEPT !.st = "resumed"] ELSE opPc[p]]
    /\ microtasks' = microtasks \o
          [i \in 1..Len(readyQueue) |-> readyQueue[Len(readyQueue) + 1 - i]]
    /\ bg' = "settled"
    /\ UNCHANGED <<tableFailed, readyQueue, opErr>>

\* tablePending = false; for (const item of readyQueue) item.resolve()
SettleReady ==
    /\ tablePending' = FALSE
    /\ opPc' = [p \in Ops |-> IF opPc[p].st = "queued"
                               THEN [opPc[p] EXCEPT !.st = "resumed"] ELSE opPc[p]]
    /\ microtasks' = microtasks \o readyQueue
    /\ bg' = "settled"
    /\ UNCHANGED <<tableFailed, readyQueue, opErr>>

\* the catch block without its loop: the waiters are left in readyQueue
SettleFailed_NoReject(e) ==
    /\ tableFailed' = e
    /\ bg' = "settled"
    /\ UNCHANGED <<tablePending, readyQueue, opPc, opErr, microtasks>>

\* tableFailed = e; for (const item of readyQueue) item.reject(e)
SettleFailed(e) ==
    /\ tableFailed' = e
    /\ opPc' = [p \in Ops |-> IF opPc[p].st = "queued"
                               THEN [opPc[p] EXCEPT !.st = "rejecting"] ELSE opPc[p]]
    /\ opErr' = [p \in Ops |-> IF opPc[p].st = "queued" THEN e ELSE opErr[p]]
    /\ microtasks' = microtasks \o readyQueue
    /\ bg' = "settled"
    /\ UNCHANGED <<tablePending, readyQueue>>

\* await knex.schema.hasTable(name) answers
HasTable ==
    /\ bg = "hasTable"
    /\ IF tableExists
       THEN SettleReady
       ELSE /\ bg' = "createTable"
            /\ UNCHANGED <<tablePending, tableFailed, readyQueue, microtasks,
                           opPc, opErr>>
    /\ UNCHANGED <<tableExists, opKind, statements>>
    /\ GateFrame

\* await knex.schema.createTable(name, ...) answers
CreateTable ==
    /\ bg = "createTable"
    /\ tableExists' = TRUE
    /\ SettleReady
    /\ UNCHANGED <<opKind, statements>>
    /\ GateFrame

\* hasTable or createTable throws
TableFails ==
    /\ bg \in {"hasTable", "createTable"}
    /\ \E e \in TableErrors : SettleFailed(e)
    /\ UNCHANGED <<tableExists, opKind, statements>>
    /\ GateFrame

GateInit ==
    /\ columns = {ID, EXT_JSON}
    /\ rows = EmptyTable
    /\ sqlIndexes = {}
    /\ indexes = InitialIndexes
    /\ issued = {}
    /\ locked = FALSE
    /\ client = "sqlite3"
    /\ last = NoCall
    /\ tablePending = TRUE
    /\ tableFailed = NoError
    /\ readyQueue = <<>>
    /\ bg = "hasTable"
    /\ tableExists \in BOOLEAN
    /\ microtasks = <<>>
    /\ opPc = [p \in Ops |-> Idle]
    /\ opKind = [p \in Ops |-> "find.toArray"]
    /\ opErr = [p \in Ops |-> NoError]
    /\ statements = {}
    /\ handles = <<>>
    /\ NoRace

GateNext ==
    \/ \E p \in Ops : Call(p)
    \/ \E p \in Ops : CallReady(p)
    \/ \E p \in Ops : Statement(p)
    \/ RunMicrotask
    \/ HasTable
    \/ CreateTable
    \/ TableFails

SpecGate == GateInit /\ [][GateNext]_vars

\* The background creation of the table
Background == HasTable \/ CreateTable \/ TableFails

\* one kind of call for each number of awaits of ready() and of statements
\* after them
FairKinds == {"find.toArray", "updateOne", "createIndex"}

\* a facade call of one of these kinds is made
FairCall(p) ==
    /\ opPc[p].st = "idle"
    /\ \E kind \in FairKinds :
          /\ opKind' = [opKind EXCEPT ![p] = kind]
          /\ opPc' = [opPc EXCEPT ![p] = [at |-> 1, st |-> "run", queued |-> FALSE]]
    /\ UNCHANGED <<tablePending, tableFailed, readyQueue, bg, tableExists,
                   microtasks, opErr, statements>>
    /\ GateFrame

FairNext ==
    \/ \E p \in Ops : FairCall(p)
    \/ \E p \in Ops : CallReady(p)
    \/ \E p \in Ops : Statement(p)
    \/ RunMicrotask
    \/ HasTable
    \/ CreateTable
    \/ TableFails

\* The promises of knex settle and the event loop runs every continuation
\* that is due.
SpecGateFair ==
    /\ GateInit
    /\ [][FairNext]_vars
    /\ WF_vars(Background)
    /\ WF_vars(RunMicrotask)

----------------------------------------------------------------------------
(* Concurrent updateOne calls on one document.  The calls suspend at every *)
(* relational round trip: the select of findOne and the update of          *)
(* updateBody are separate steps of the engine.                            *)

NUpdaters == 3
MaxDelta == 2
Updaters == 1..NUpdaters

RaceCriteria == ID :> Eq("a")

\* { $inc: { n: d } } and { $set: { fur: 'white' } }
RaceOperations ==
    {<<[key |-> "$inc", value |-> (N :> d)]>> : d \in 1..MaxDelta}
        \cup {<<[key |-> "$set", value |-> (FUR :> "white")]>>}

RaceFrame ==
    /\ UNCHANGED <<columns, sqlIndexes, indexes, issued, locked, client, last>>
    /\ UNCHANGED gateVars

\* updateOne(criteria, operations) is called.  The first call runs alone; the
\* others are made once it has returned, and overlap each other.
RaceCall(p) ==
    /\ upPc[p] = "idle"
    /\ p = 1 \/ upPc[1] = "done"
    /\ \E operations \in RaceOperations : upOps' = [upOps EXCEPT ![p] = operations]
    /\ upPc' = [upPc EXCEPT ![p] = "called"]
    /\ UNCHANGED <<rows, upDoc, upResult>>
    /\ RaceFrame

\* const doc = await self.findOne(criteria)
RaceRead(p) ==
    /\ upPc[p] = "called"
    /\ IsReady
    /\ \E found \in FindOne(columns, rows, indexes, RaceCriteria) :
          /\ upDoc' = [upDoc EXCEPT ![p] = found]
          /\ IF found = Undefined
             THEN /\ upPc' = [upPc EXCEPT ![p] = "done"]
                  /\ upResult' = [upResult EXCEPT ![p] = [err |-> NoError, n |-> 0]]
             ELSE /\ upPc' = [upPc EXCEPT ![p] = "read"]
                  /\ UNCHANGED upResult
    /\ UNCHANGED <<rows, upOps>>
    /\ RaceFrame

\* return self.updateBody(doc, operations)
RaceWrite(p) ==
    /\ upPc[p] = "read"
    /\ LET r == UpdateBody(columns, rows, sqlIndexes, client, indexes,
                           upDoc[p][1], upOps[p], 0)
       IN  /\ rows' = r.rows
           /\ upResult' = [upResult EXCEPT ![p] = [err |-> r.err, n |-> r.n]]
    /\ upPc' = [upPc EXCEPT ![p] = "done"]
    /\ UNCHANGED <<upDoc, upOps>>
    /\ RaceFrame

RaceInit ==
    /\ columns = {ID, EXT_JSON}
    /\ rows = SqlInsert({ID, EXT_JSON}, EmptyTable, {}, "sqlite3",
                        PrepareForInsert(InitialIndexes, RaceDoc, "-")).rows
    /\ sqlIndexes = {}
    /\ indexes = InitialIndexes
    /\ issued = {}
    /\ locked = FALSE
    /\ client = "sqlite3"
    /\ last = NoCall
    /\ GateReady
    /\ upPc = [p \in Updaters |-> "idle"]
    /\ upDoc = [p \in Updaters |-> Undefined]
    /\ upOps = [p \in Updaters |-> <<>>]
    /\ upResult = [p \in Updaters |-> [err |-> NoError, n |-> 0]]

RaceNext ==
    \/ \E p \in Updaters : RaceCall(p)
    \/ \E p \in Updaters : RaceRead(p)
    \/ \E p \in Updaters : RaceWrite(p)

SpecRace == RaceInit /\ [][RaceNext]_vars

----------------------------------------------------------------------------
(* Properties of the ready collection (Spec) *)

Decoded(rws, p) == EJSONparse(rws[p][EXT_JSON][1])

\* { k: v, ... } selecting the documents that agree with doc on all its keys
CriteriaOf(doc) == [k \in DOMAIN doc |-> Eq(doc[k])]

\* C1: for every predicate P, find(P).toArray() with the registered indexes
\* returns exactly what the matcher alone keeps of the decoded rows (the
\* result of the same query with no index to push down), whatever the order
\* of the inserts, updates and createIndex calls before it.
C1_PushdownNeverChangesResults ==
    \A P \in FindCriteria :
        /\ QueryFiltered(columns, rows, indexes, P).err = NoError
        /\ ToArray(columns, rows, indexes, P, 0, 0)
              = ToArray(columns, rows, <<>>, P, 0, 0)

\* C2: an updateOne with { $set: { k: v } } that matched a stored document
\* (and does not run into a unique index) completes without error, and a
\* findOne selecting that document then returns it with k = v and its other
\* properties as they were.
C2_SetUpdatesMatchedDocument ==
    [][(/\ last'.op = "updateOne"
        /\ last'.pk # ""
        /\ last'.err \notin {ConstraintError(c) : c \in Clients})
       => LET before == Decoded(rows, last'.pk)
              expected == ValueOf(last'.operations, "$set") @@ before
          IN  /\ last'.err = NoError
              /\ Decoded(rows', last'.pk) = expected
              /\ <<expected>> \in FindOne(columns', rows', indexes',
                                         CriteriaOf(expected))]_vars

\* C3: every document find returns carries an _id, which is the primary key
\* of the one row it was decoded from.
C3_ReturnedIdIsPrimaryKey ==
    \A r \in ToArray(columns, rows, indexes, EmptyObject, 0, 0) :
        \A i \in 1..Len(r) :
            /\ ID \in DOMAIN r[i]
            /\ RowsOf(rows, r[i]) = {r[i][ID]}

SchemaViolation == [code |-> "", message |-> "SchemaViolation"]

\* C6: in locked mode no column is ever created, and an updateOne that
\* touches a property without a backing column fails with SchemaViolation
\* and writes nothing.
C6_LockedModeRejectsUnprovisioned ==
    [][locked =>
         /\ columns' = columns
         /\ (/\ last'.op = "updateOne"
             /\ last'.pk # ""
             /\ \E k \in DOMAIN ValueOf(last'.operations, "$set") :
                   MangleName(k) \notin columns)
            => (last'.err = SchemaViolation /\ rows' = rows)]_vars

UniqueOnFur == [cols |-> <<FUR>>, unique |-> TRUE]
WithFur(rws, f) ==
    {p \in DOMAIN rws : FUR \in DOMAIN Decoded(rws, p) /\ Decoded(rws, p)[FUR] = f}

\* C9: with a unique index on fur, an insertOne of a document whose fur is
\* that of a stored document fails with the Not Unique error (code 11000),
\* and the collection still holds exactly one document with that fur.
C9_UniqueInsertRejected ==
    [][(/\ last'.op = "insertOne"
        /\ UniqueOnFur \in sqlIndexes
        /\ WithFur(rows, last'.doc[FUR]) # {})
       => /\ last'.err = NotUnique
          /\ Cardinality(WithFur(rows', last'.doc[FUR])) = 1]_vars

\* C10: a uniqueness failure of the engine during replaceOne or updateOne
\* reaches the caller as the Not Unique error (code 11000), as it does on
\* insert, never as the engine's own error.
C10_UpdateConflictTranslated ==
    last.op \in {"replaceOne", "updateOne"}
        => last.err \notin {ConstraintError(c) : c \in Clients}

----------------------------------------------------------------------------
(* Properties of the readiness gate (SpecGate) *)

TableState ==
    IF tableFailed # NoError THEN "Failed"
    ELSE IF tablePending THEN "Pending" ELSE "Ready"

\* C4: no statement of a facade call is sent to the engine while the table
\* is still pending or its creation has failed.
C4_NoStatementBeforeReady ==
    \A s \in statements : ~s.pending /\ ~s.failed

\* a call that waited in readyQueue has sent all its statements, and a call
\* made after the table was ready has sent one too
C4_Witness ==
    \E p, q \in Ops :
        /\ opPc[p].st = "done" /\ opPc[p].queued
        /\ \E s \in statements : s.op = q /\ ~opPc[q].queued

\* C5: once table creation has failed with e the collection stays failed;
\* every call that has reached ready(), before or after the failure, is
\* rejected with e and none of them waits or goes on; and the only changes
\* of the table's state are Pending to Ready and Pending to Failed.
C5_FailureReachesEveryCaller ==
    /\ [](tableFailed # NoError =>
             \A p \in Ops :
                /\ \/ opPc[p].st \in {"idle", "rejecting", "rejected"}
                   \/ opPc[p].st = "run" /\ opPc[p].at = 1
                /\ opPc[p].st \in {"rejecting", "rejected"} => opErr[p] = tableFailed)
    /\ [][/\ TableState' # TableState => TableState = "Pending"
          /\ tableFailed # NoError => tableFailed' = tableFailed]_vars

\* the table failed; one call was waiting in readyQueue, another came later;
\* both hold the table's error
C5_Witness ==
    /\ tableFailed # NoError
    /\ \E p, q \in Ops :
          /\ opPc[p].st = "rejected" /\ opPc[p].queued
          /\ opPc[q].st = "rejected" /\ ~opPc[q].queued
          /\ opErr[p] = tableFailed /\ opErr[q] = tableFailed

----------------------------------------------------------------------------
(* Properties of concurrent updateOne calls (SpecRace) *)

AllDone == \A p \in Updaters : upPc[p] = "done"

IsInc(p) == upOps[p] # <<>> /\ upOps[p][1].key = "$inc"

RECURSIVE SumOfIncrements(_)
SumOfIncrements(P) ==
    IF P = {}
    THEN 0
    ELSE LET p == CHOOSE x \in P : TRUE
         IN  upOps[p][1].value[N] + SumOfIncrements(P \ {p})

\* what the call p read of n
ReadN(p) == IF N \in DOMAIN upDoc[p][1] THEN upDoc[p][1][N] ELSE 0

\* C7: after a first $inc of n has completed, concurrent updateOne calls
\* with $inc on the same document leave n increased by the sum of their
\* increments, whatever the interleaving of their round trips.
C7_ConcurrentIncAtomic ==
    (AllDone /\ \A p \in Updaters : IsInc(p))
        => Decoded(rows, "a")[N] = SumOfIncrements(Updaters)

\* C8: every completed updateOne reports nModified 1, and the stored
\* document is what one of the completed calls read with that call's own
\* operators applied, nothing of what the other calls wrote in between.
C8_WritesBackWhatItRead ==
    /\ \A p \in Updaters :
          upPc[p] = "done" => upResult[p] = [err |-> NoError, n |-> 1]
    /\ (\E p \in Updaters : upPc[p] = "done")
          => \E p \in Updaters :
                /\ upPc[p] = "done"
                /\ Decoded(rows, "a") = UpdatedDoc(upDoc[p][1], upOps[p], 0).doc

\* two overlapping $inc calls read the same document, both report
\* nModified 1, and n is increased by one of the two increments only
C8_LostUpdate ==
    \E p, q \in Updaters :
        /\ p # q
        /\ upPc[p] = "done" /\ upPc[q] = "done"
        /\ IsInc(p) /\ IsInc(q)
        /\ upResult[p].n = 1 /\ upResult[q].n = 1
        /\ upDoc[p] = upDoc[q]
        /\ Decoded(rows, "a")[N] = ReadN(q) + upOps[q][1].value[N]

----------------------------------------------------------------------------
(* Properties of the update operators (SpecOperators) *)

Occurrences(seq, v) == Cardinality({i \in 1..Len(seq) : seq[i] = v})
TagsOf(doc) == IF TAGS \in DOMAIN doc THEN doc[TAGS] ELSE <<>>
Without(seq, v) == SelectSeq(seq, LAMBDA x : x # v)
IsSingle(operations, key) == Len(operations) = 1 /\ operations[1].key = key

\* C11: updateOne with { $addToSet: { tags: v } } on a matched document
\* succeeds and leaves v exactly once in tags, appended at the end when it
\* was not there; applying the same operator again changes nothing.
C11_AddToSetAddsOnce ==
    [][(/\ last'.op = "updateOne" /\ last'.pk # ""
        /\ IsSingle(last'.operations, "$addToSet"))
       => LET v == last'.operations[1].value[TAGS]
              before == Decoded(rows, last'.pk)
              after == Decoded(rows', last'.pk)
          IN  /\ last'.err = NoError
              /\ Occurrences(TagsOf(after), v) = 1
              /\ Occurrences(TagsOf(before), v) = 0
                    => TagsOf(after) = Append(TagsOf(before), v)
              /\ UpdatedDoc(after, last'.operations, 0).doc = after]_vars

\* C12: updateOne with { $pull: { tags: v } } on a matched document
\* succeeds, removes every occurrence of v from tags and keeps the other
\* elements in order; when v does not occur the document is left as it was.
C12_PullRemovesAll ==
    [][(/\ last'.op = "updateOne" /\ last'.pk # ""
        /\ IsSingle(last'.operations, "$pull"))
       => LET v == last'.operations[1].value[TAGS]
              before == Decoded(rows, last'.pk)
              after == Decoded(rows', last'.pk)
          IN  /\ last'.err = NoError
              /\ TagsOf(after) = Without(TagsOf(before), v)
              /\ Occurrences(TagsOf(before), v) = 0 => after = before]_vars

SupportedKeys == {"$set", "$unset", "$inc", "$pull", "$addToSet", "$currentDate"}
HasUnknown(operations) ==
    \E i \in 1..Len(operations) : operations[i].key \notin SupportedKeys

\* C13: an updateOne or updateMany call whose operators include a key
\* outside the supported ones fails with the unsupported-operator error and
\* leaves the table as it was, wherever the key stands among the operators.
C13_UnknownOperatorRejected ==
    [][(/\ last'.op \in {"updateOne", "updateOne:upsert",
                         "updateMany", "updateMany:upsert"}
        /\ HasUnknown(last'.operations))
       => (last'.err = Unsupported /\ rows' = rows)]_vars

----------------------------------------------------------------------------
(* Properties of the queries (SpecQuery) *)

\* the elements at positions s to s+l-1 of seq, counted from 0
Positions(seq, s, l) ==
    SubSeq(seq, s + 1, IF s + l < Len(seq) THEN s + l ELSE Len(seq))

\* the possible results of the same query with neither skip nor limit
FullResults == ToArray(columns, rows, indexes, last.criteria, 0, 0)

\* C14 as stated: find(P).skip(s).limit(l).toArray() is the elements at
\* positions s to s+l-1 of the fully filtered sequence, for every s and l.
C14_SkipThenLimit ==
    (last.op = "find" /\ last.err = NoError)
        => \E full \in FullResults : last.result = Positions(full, last.skip, last.limit)

\* C14 amended: so it is for l >= 1; limit(0) sets no limit, and the result
\* is everything from position s on.
C14_SkipThenLimitUnlessZero ==
    (last.op = "find" /\ last.err = NoError)
        => \E full \in FullResults :
              last.result = IF last.limit = 0
                            THEN Positions(full, last.skip, Len(full))
                            ELSE Positions(full, last.skip, last.limit)

\* a query with skip 1 and limit 1 on a table holding two matching rows and
\* one that does not match returns one matching document
C14_Witness ==
    /\ last.op = "find" /\ last.err = NoError
    /\ last.skip = 1 /\ last.limit = 1
    /\ Len(last.result) = 1
    /\ \E p \in DOMAIN rows : ~Sift(last.criteria, Decoded(rows, p))
    /\ \E full \in FullResults : Len(full) = 2

\* C19: count(P), countDocuments(P) and find(P).count() answer the length
\* of find(P).toArray() in the same state, whatever order the engine returns
\* the rows in, and with P = {} the number of stored documents.
C19_CountIsLengthOfFind ==
    (last.op \in {"count", "countDocuments", "find.count"} /\ last.err = NoError)
        => /\ \A full \in FullResults : last.n = Len(full)
           /\ last.criteria = EmptyObject => last.n = Cardinality(DOMAIN rows)

\* a count with a criterion the engine cannot evaluate, on a table holding
\* both a matching and a non-matching document
C19_Witness ==
    /\ last.op \in {"count", "countDocuments", "find.count"}
    /\ last.err = NoError
    /\ last.criteria = (FUR :> Ne("black"))
    /\ last.n = 1
    /\ Cardinality(DOMAIN rows) = 2

----------------------------------------------------------------------------
(* Properties of the mutating calls (SpecMany) *)

ConstraintErrors == {ConstraintError(c) : c \in Clients} \cup {NotUnique}

\* the stored rows whose document the matcher accepts
MatchingRows(rws, criteria) ==
    {p \in DOMAIN rws : Sift(criteria, Decoded(rws, p))}

\* C15: a mutating call that completes returns a result descriptor, and its
\* count is the number of rows the call inserted, deleted, or reached with
\* its update.
C15_CountsAreActual ==
    [][(last'.op # "" /\ last'.err = NoError)
       => /\ last'.descriptor
          /\ last'.op \in {"insertOne", "insertMany", "updateOne:upsert",
                           "updateMany:upsert"}
                => last'.n = Cardinality(DOMAIN rows' \ DOMAIN rows)
          /\ last'.op \in {"deleteOne", "deleteMany", "removeMany"}
                => last'.n = Cardinality(DOMAIN rows \ DOMAIN rows')
          /\ last'.op \in {"replaceOne", "updateOne"}
                => last'.n = Cardinality(DOMAIN rows \cap {last'.pk})]_vars

\* C16: updateMany(P, { $set: s }), a conflict with a unique index aside,
\* succeeds, gives every stored document matching P the properties of s and
\* leaves the other documents as they were; an upsert of updateOne or
\* updateMany adds exactly one row, holding s, and changes no other row.
C16_UpdateManyEveryMatch ==
    [][/\ (last'.op = "updateMany" /\ last'.err \notin ConstraintErrors)
          => /\ last'.err = NoError
             /\ DOMAIN rows' = DOMAIN rows
             /\ \A p \in DOMAIN rows :
                   Decoded(rows', p) =
                      IF p \in MatchingRows(rows, last'.criteria)
                      THEN ValueOf(last'.operations, "$set") @@ Decoded(rows, p)
                      ELSE Decoded(rows, p)
       /\ (/\ last'.op \in {"updateOne:upsert", "updateMany:upsert"}
           /\ last'.err \notin ConstraintErrors)
          => /\ last'.err = NoError
             /\ \A p \in DOMAIN rows : p \in DOMAIN rows' /\ rows'[p] = rows[p]
             /\ \E p \in DOMAIN rows' :
                   /\ DOMAIN rows' = DOMAIN rows \cup {p}
                   /\ p \notin DOMAIN rows
                   /\ Decoded(rows', p) = ValueOf(last'.operations, "$set")]_vars

\* C18: deleteMany(P) and removeMany(P), on documents stored with an _id,
\* succeed, delete every stored document matching P and no other, report
\* their number as nDeleted, and leave find(P) empty.
C18_DeleteManyDeletesAll ==
    [][(/\ last'.op \in {"deleteMany", "removeMany"}
        /\ \A p \in DOMAIN rows : ID \in DOMAIN Decoded(rows, p))
       => LET matching == MatchingRows(rows, last'.criteria)
          IN  /\ last'.err = NoError
              /\ DOMAIN rows' = DOMAIN rows \ matching
              /\ \A p \in DOMAIN rows' : rows'[p] = rows[p]
              /\ last'.n = Cardinality(matching)
              /\ ToArray(columns', rows', indexes', last'.criteria, 0, 0) = {<<>>}]_vars

----------------------------------------------------------------------------
(* Properties of createIndex (SpecIndex) *)

\* the index the last createIndex call asked for, as the table knows it
AskedIndex(idx) ==
    LET asked == idx[Len(idx)]
    IN  [cols |-> [i \in 1..Len(asked.fields) |-> MangleName(asked.fields[i])],
         unique |-> asked.options.unique]

\* C17: a createIndex call asking for an index the table already has
\* completes without error and leaves the columns and the result of every
\* find as they were; a createIndex call the engine refuses for the rows'
\* sake (a unique index over rows that agree) passes the engine's error on.
C17_CreateIndexIdempotent ==
    [][last'.op = "createIndex"
       => /\ AskedIndex(indexes') \in sqlIndexes
             => /\ last'.err = NoError
                /\ columns' = columns
                /\ \A P \in FindCriteria :
                      ToArray(columns', rows', indexes', P, 0, 0)
                          = ToArray(columns, rows, indexes, P, 0, 0)
          /\ (/\ AskedIndex(indexes') \notin sqlIndexes
              /\ UniqueViolation(rows', {AskedIndex(indexes')}))
             => last'.err = ConstraintError(client)]_vars

----------------------------------------------------------------------------
(* The promoted columns (SpecMany) *)

\* the field paths of the registered indexes, _id (the primary key) aside
PromotedFields ==
    UNION {{indexes[i].fields[j] : j \in 1..Len(indexes[i].fields)} :
              i \in 1..Len(indexes)} \ {ID}

\* the value the decoded blob has at a field, or none
ValueAt(doc, field) == IF field \in DOMAIN doc THEN <<doc[field]>> ELSE NULL

\* C20: for every stored row and every field of every registered index, the
\* table has the field's column and the row holds in it the value its
\* decoded blob has at that field, or NULL when the blob has none.
C20_ColumnsMirrorBlob ==
    \A p \in DOMAIN rows : \A field \in PromotedFields :
        /\ MangleName(field) \in columns
        /\ rows[p][MangleName(field)] = ValueAt(Decoded(rows, p), field)

----------------------------------------------------------------------------
(* Properties of the columns behind updated properties (Spec) *)

AtomicOperators == {"$set", "$unset", "$inc"}

\* the top-level properties an update applies $set, $unset or $inc to
AtomicProperties(operations) ==
    UNION {DOMAIN operations[i].value :
              i \in {j \in 1..Len(operations) : operations[j].key \in AtomicOperators}}

\* C21: once updateOne has applied $set, $unset or $inc to a top-level
\* property p of a document, the table has a backing column for p.
C21_UpdateProvisionsColumn ==
    [][(/\ last'.op = "updateOne"
        /\ last'.err = NoError
        /\ last'.n = 1)
       => \A p \in AtomicProperties(last'.operations) :
             MangleName(p) \in columns']_vars

----------------------------------------------------------------------------
(* Liveness of the readiness gate (SpecGateFair) *)

\* C22: a call suspended in ready() does not stay suspended: its promise
\* is resolved or rejected once the creation of the table settles, and a
\* call that reaches ready() after a failure is not suspended at all.
C22_WaitersSettle ==
    \A p \in Ops : (opPc[p].st = "queued") ~> (opPc[p].st # "queued")

\* every call waited in readyQueue and has gone on to its end
C22_Witness ==
    /\ TableState = "Ready"
    /\ \A p \in Ops : opPc[p].queued /\ opPc[p].st = "done"

----------------------------------------------------------------------------
(* Order of release from the readiness gate (SpecGate) *)

\* the call has gone on, or has failed, after its first await of ready()
Released(p) ==
    \/ opPc[p].at > 1
    \/ opPc[p].st \in {"done", "rejected"}

\* C23: the calls that waited in readyQueue are released in the order in
\* which they called ready(): a later waiter has not gone on while an
\* earlier one has not; and when the creation of the table failed every
\* waiter holds the same error, the table's.
C23_FifoRelease ==
    /\ \A i, j \in 1..Len(readyQueue) :
          (i < j /\ Released(readyQueue[j])) => Released(readyQueue[i])
    /\ tableFailed # NoError =>
          \A i \in 1..Len(readyQueue) : opErr[readyQueue[i]] = tableFailed

\* two calls waited; the table is ready and the first of them has gone on,
\* the second has not yet
C23_Witness ==
    /\ TableState = "Ready"
    /\ Len(readyQueue) >= 2
    /\ Released(readyQueue[1])
    /\ ~Released(readyQueue[2])

----------------------------------------------------------------------------
(* Column names: indexes on properties whose names hold '.' or '__' *)

MaxNameIndexes == 2

\* 'a', 'b', and 'x.y' and 'x__y' for x, y among them
PathTokens == {"a", "b"}
Separators == {".", "__"}
NamePaths ==
    {<<x>> : x \in PathTokens}
        \cup {<<x, s, y>> : x \in PathTokens, s \in Separators, y \in PathTokens}

\* { _id: 'a', 'a.b': f, 'a__b': g }
NameDocs ==
    {(ID :> "a") @@ (<<"a", ".", "b">> :> f) @@ (<<"a", "__", "b">> :> g) :
        f \in Furs, g \in Furs}

NameInsertOne ==
    /\ IsReady
    /\ rows = EmptyTable
    /\ \E doc \in NameDocs : InsertOneCall(doc)
    /\ UNCHANGED <<columns, sqlIndexes, indexes, locked, client>>
    /\ UNCHANGED <<gateVars, raceVars>>

NameCreateIndex ==
    /\ IsReady
    /\ Len(indexes) <= MaxNameIndexes
    /\ \E path \in NamePaths, unique \in BOOLEAN : CreateIndexCall(<<path>>, unique)
    /\ UNCHANGED <<issued, locked, client>>
    /\ UNCHANGED <<gateVars, raceVars>>

NameNext ==
    \/ NameInsertOne
    \/ NameCreateIndex

SpecNames == ManyInit /\ [][NameNext]_vars

\* C24: two different property paths of the collection's indexes never
\* have the same column name, the name of a path being the path with every
\* '.' replaced by '__'.
C24_ColumnNamesInjective ==
    \A f, g \in PromotedFields :
        /\ MangleName(f) = [i \in 1..Len(f) |-> IF f[i] = "." THEN "__" ELSE f[i]]
        /\ f # g => MangleName(f) # MangleName(g)

----------------------------------------------------------------------------
(* The conditions a query hands to the engine: find(criteria).toArray() on *)
(* a collection with single-field and compound indexes                     *)

\* {}, { _id: 'a' }, { name: 'pypy' }, { fur: 'black' },
\* { fur: { $ne: 'black' } }, { name: 'pypy', fur: 'black' },
\* { name: 'pypy', fur: { $ne: 'black' } }, { name: { $ne: 'pypy' }, fur: 'black' },
\* { $and: [ { fur: 'black' }, { name: 'pypy' } ] } and
\* { $and: [ { $and: [ { name: 'pypy' } ] }, { fur: { $ne: 'black' } } ] }
PushdownCriteria ==
    {EmptyObject, ID :> Eq("a"), NAME :> Eq("pypy"), FUR :> Eq("black"),
     FUR :> Ne("black"),
     (NAME :> Eq("pypy")) @@ (FUR :> Eq("black")),
     (NAME :> Eq("pypy")) @@ (FUR :> Ne("black")),
     (NAME :> Ne("pypy")) @@ (FUR :> Eq("black")),
     AND :> <<FUR :> Eq("black"), NAME :> Eq("pypy")>>,
     AND :> <<AND :> <<NAME :> Eq("pypy")>>, FUR :> Ne("black")>>}

\* find(criteria).toArray()
PushdownFind ==
    /\ IsReady
    /\ \E criteria \in PushdownCriteria :
          LET wheres == PushdownWheres(indexes, criteria)
              q == QueryFiltered(columns, rows, indexes, criteria)
              call == [NoCall EXCEPT !.op = "find", !.criteria = criteria,
                                     !.wheres = wheres]
          IN  IF q.err # NoError
              THEN last' = [call EXCEPT !.err = q.err]
              ELSE \E result \in ToArray(columns, rows, indexes, criteria, 0, 0) :
                      last' = [call EXCEPT !.result = result]
    /\ UNCHANGED <<columns, rows, sqlIndexes, indexes, issued, locked, client>>
    /\ UNCHANGED <<gateVars, raceVars>>

\* createIndex({ fur: 1 }) and createIndex({ name: 1, fur: 1 }), each
\* asked for once
PushdownCreateIndex ==
    /\ IsReady
    /\ \E fields \in IndexFields :
          /\ \A i \in 1..Len(indexes) : indexes[i].fields # fields
          /\ CreateIndexCall(fields, FALSE)
    /\ UNCHANGED <<issued, locked, client>>
    /\ UNCHANGED <<gateVars, raceVars>>

PushdownNext ==
    \/ QueryInsertOne
    \/ PushdownCreateIndex
    \/ PushdownFind

SpecPushdown == ManyInit /\ [][PushdownNext]_vars

\* the criteria's value for the field is there and is not an object
IsPlainScalar(criteria, field) ==
    LET value == DeepGet(criteria, field)
    IN  value # Undefined /\ value[1].scalar

\* the length of the longest prefix of the fields all of whose values are
\* plain scalars
PrefixLength(fields, criteria) ==
    Cardinality({k \in 1..Len(fields) :
                    \A i \in 1..k : IsPlainScalar(criteria, fields[i])})

\* <<i, j>>: field j of index i is within that prefix
Pushed(idx, criteria) ==
    UNION {{<<i, j>> : j \in 1..PrefixLength(idx[i].fields, criteria)} :
              i \in 1..Len(idx)}

\* the pairs of S before q, by index and then by field
Before(q, S) ==
    {r \in S : r[1] < q[1] \/ (r[1] = q[1] /\ r[2] < q[2])}

\* C25: the conditions of a find's statement are, index by index in the
\* order of self.indexes, one equality per field of the longest prefix of
\* the index's fields whose criteria values are present and plain scalars,
\* and nothing else.
C25_PushdownIsScalarPrefix ==
    last.op = "find" =>
        LET S == Pushed(indexes, last.criteria)
        IN  /\ Len(last.wheres) = Cardinality(S)
            /\ \A q \in S :
                  last.wheres[Cardinality(Before(q, S)) + 1]
                      = [column |-> indexes[q[1]].fields[q[2]],
                         value |-> DeepGet(last.criteria, indexes[q[1]].fields[q[2]])[1].v]

\* a find on a collection with the index (name, fur) whose criteria give
\* name a scalar and fur an operator object: the statement has the
\* condition on name alone, and the find returned a document
C25_Witness ==
    /\ last.op = "find"
    /\ \E i \in 1..Len(indexes) : indexes[i].fields = <<NAME, FUR>>
    /\ last.criteria = (NAME :> Eq("pypy")) @@ (FUR :> Ne("black"))
    /\ last.wheres = <<[column |-> NAME, value |-> "pypy"]>>
    /\ last.result # <<>>

----------------------------------------------------------------------------
(* Properties of a createIndex that fails (SpecIndex) *)

\* C26: a createIndex that throws leaves self.indexes as it was before the
\* call.
C26_FailedCreateIndexRegistersNothing ==
    [][(last'.op = "createIndex" /\ last'.err # NoError) => indexes' = indexes]_vars

----------------------------------------------------------------------------
(* Several collection objects of one name: db.collection(name) is called   *)
(* again while the table of the first call is still being prepared.  Each  *)
(* call runs the background creation of its own.                           *)

NHandles == 3
Handles == 1..NHandles

\* what createTable fails with when the table is there
TableExistsError == [code |-> "ERROR", message |-> "table already exists"]

\* a handle not obtained yet; caller is the state of a facade call made on
\* the handle, at its await of ready()
NoHandle == [bg |-> "none", tablePending |-> TRUE, tableFailed |-> NoError,
             caller |-> "idle"]

\* the steps of the handles leave everything else alone
HandleFrame ==
    /\ UNCHANGED <<rows, sqlIndexes, indexes, issued, locked, client, last>>
    /\ UNCHANGED <<tablePending, tableFailed, readyQueue, bg, microtasks,
                   opPc, opKind, opErr, statements>>
    /\ UNCHANGED raceVars

\* collection(name): the background function runs up to await hasTable
Collection(h) ==
    /\ handles[h].bg = "none"
    /\ handles' = [handles EXCEPT ![h].bg = "hasTable"]
    /\ UNCHANGED <<tableExists, columns>>
    /\ HandleFrame

\* a facade call on the handle reaches await self.ready()
HandleCallReady(h) ==
    /\ handles[h].bg # "none"
    /\ handles[h].caller = "idle"
    /\ LET outcome == Ready(handles[h].tablePending, handles[h].tableFailed)
       IN  handles' = [handles EXCEPT ![h].caller =
                          CASE outcome = "throw" -> "rejected"
                            [] outcome = "return" -> "resumed"
                            [] outcome = "wait" -> "queued"]
    /\ UNCHANGED <<tableExists, columns>>
    /\ HandleFrame

\* tablePending = false and the waiters are resolved
HandleReady(handle) ==
    [handle EXCEPT !.bg = "settled", !.tablePending = FALSE,
                   !.caller = IF @ = "queued" THEN "resumed" ELSE @]

\* tableFailed = e and the waiters are rejected
HandleFailed(handle, e) ==
    [handle EXCEPT !.bg = "settled", !.tableFailed = e,
                   !.caller = IF @ = "queued" THEN "rejected" ELSE @]

\* the engine answers the handle's hasTable
HandleHasTable(h) ==
    /\ handles[h].bg = "hasTable"
    /\ handles' = [handles EXCEPT ![h] =
                      IF tableExists
                      THEN HandleReady(@)
                      ELSE [@ EXCEPT !.bg = "createTable"]]
    /\ UNCHANGED <<tableExists, columns>>
    /\ HandleFrame

\* the engine answers the handle's createTable
HandleCreateTable(h) ==
    /\ handles[h].bg = "createTable"
    /\ handles' = [handles EXCEPT ![h] =
                      IF tableExists
                      THEN HandleFailed(@, TableExistsError)
                      ELSE HandleReady(@)]
    /\ tableExists' = TRUE
    /\ columns' = {ID, EXT_JSON}
    /\ HandleFrame

\* the table does not exist yet and no handle has been obtained
HandlesInit ==
    /\ columns = {}
    /\ rows = EmptyTable
    /\ sqlIndexes = {}
    /\ indexes = InitialIndexes
    /\ issued = {}
    /\ locked = FALSE
    /\ client = "sqlite3"
    /\ last = NoCall
    /\ tablePending = TRUE
    /\ tableFailed = NoError
    /\ readyQueue = <<>>
    /\ bg = "none"
    /\ tableExists = FALSE
    /\ microtasks = <<>>
    /\ opPc = <<>>
    /\ opKind = <<>>
    /\ opErr = <<>>
    /\ statements = {}
    /\ handles = [h \in Handles |-> NoHandle]
    /\ NoRace

HandlesNext ==
    \/ \E h \in Handles : Collection(h)
    \/ \E h \in Handles : HandleCallReady(h)
    \/ \E h \in Handles : HandleHasTable(h)
    \/ \E h \in Handles : HandleCreateTable(h)

SpecHandles == HandlesInit /\ [][HandlesNext]_vars

\* C27: of the handles obtained for a collection whose table does not exist
\* yet, none ends with tableFailed set: every background creation that has
\* settled has left its handle ready.
C27_EveryHandleReady ==
    \A h \in Handles :
        handles[h].bg = "settled" =>
            /\ handles[h].tableFailed = NoError
            /\ ~handles[h].tablePending

====
